---------------------------- MODULE Spec2Model ----------------------------
(***************************************************************************)
(* A model of tinyoscquery: the OSCQuery node tree (shared/node.py), its   *)
(* JSON encoder (OSCNodeEncoder), the type conversions, the client-side    *)
(* decoder and HTTP requests (OSCQueryClient), the discovery of services   *)
(* (OSCQueryListener, OSCQueryBrowser) and the service that holds one tree *)
(* and answers HTTP GET requests from it (queryservice.py).                *)
(*                                                                         *)
(* Specifications: Spec (the insertion API on the tree), SpecClient (the   *)
(* decoding of a document), SpecService (insertions step by step against   *)
(* GET requests), SpecBrowser (discovery and the client's requests),       *)
(* SpecTypes (the type conversions), SpecSubtree (insertions step by step  *)
(* into a tree with any root) and SpecPopulated (insertions of nodes that  *)
(* bring children with them).                                              *)
(*                                                                         *)
(* Representation.                                                         *)
(*  - A Python str is a sequence of symbols.  A path or a type string is   *)
(*    spelled out, <<"/", "a", "/", "a", "b">> for "/a/ab"; a text that is *)
(*    never taken apart is one symbol: <<"FULL_PATH">>, <<"root node">>,   *)
(*    and HOST_INFO inside a path.                                         *)
(*  - Python's None is <<>> and a present value x is <<x>> (None, Some).   *)
(*  - Objects live in a heap, a sequence of node records; an object's      *)
(*    identity is its index.  heap[Root] is the service's root_node.       *)
(*  - A JSON value is a record tagged by j: "null", "num", "str", "bool",  *)
(*    "arr" (a sequence) or "obj" (a sequence of <<key, value>> pairs in   *)
(*    dict order, keys unique), its content in the field named as the tag. *)
(***************************************************************************)
EXTENDS Integers, Sequences, FiniteSets, TLC

VARIABLES
    heap,       \* the objects: heap[i] is an OSCQueryNode, heap[Root] the root_node
    prev,       \* heap as it was when the last API call started
    last,       \* the last API call: operation, argument, outcome
    nops,       \* number of API calls made so far
    last_json,  \* the client's last_json: None, or the document of its query
    result,     \* what the client's last query_node returned or raised
    frames,     \* the add_child_node activations of a call in progress, innermost last
    response,   \* None, or the HTTP server's last response
    oscjson_services,  \* the listener's dict of discovered OSCQuery services, in dict order
    returned,   \* None, or the outcome of the call made on a client or on the browser
    argument,   \* None, or the argument of the first type conversion
    conversions \* the type conversions made so far, each with its argument and outcome

vars == <<heap, prev, last, nops, last_json, result, frames, response,
          oscjson_services, returned, argument, conversions>>
tree_vars == <<heap, prev, last, nops>>
client_vars == <<last_json, result>>
server_vars == <<frames, response>>
browser_vars == <<oscjson_services, returned>>
type_vars == <<argument, conversions>>

-----------------------------------------------------------------------------
(* Bounds of the model *)

\* longest inserted path, in characters ("/a/a/a" has 6)
MaxPathLen == 6
\* number of API calls in one behaviour
MaxOps == 2
\* longest TYPE string of a decoded document
MaxTypeLen == 2
\* longest VALUE array of a decoded document
MaxValueLen == 2
\* number of OSCQuery services on the network
MaxServices == 2
\* number of type conversions in one behaviour
MaxCalls == 4
\* the interpreter's recursion limit: the number of add_child_node activations
\* that fit on the stack (1000 in CPython, scaled down)
RecursionLimit == 4

-----------------------------------------------------------------------------
(* Python values *)

None == <<>>
Some(x) == <<x>>

\* the object index that stands for "no object" (find_subnode's None)
NoNode == 0
\* the root_node of a tree is the first object
Root == 1

\* OSCAccess.READWRITE_VALUE
READWRITE_VALUE == 3

\* a Python scalar: k is its type, the other field its content
PyInt(n) == [k |-> "int", num |-> n]
PyBool(b) == [k |-> "bool", bool |-> b]
PyStr(s) == [k |-> "str", str |-> s]

\* OSCQueryNode.__init__ (host_info is never set by this repository and is left out)
OSCQueryNode(full_path, type_, access, description, value) ==
    [ contents    |-> None,
      full_path   |-> full_path,
      access      |-> access,
      type_       |-> type_,
      value       |-> value,
      description |-> description ]

-----------------------------------------------------------------------------
(* str.rsplit("/", 1) *)

\* index of the last "/" of p, 0 when there is none
LastSlash(p) ==
    LET S == {i \in 1..Len(p) : p[i] = "/"}
    IN IF S = {} THEN 0 ELSE CHOOSE i \in S : \A j \in S : j <= i

\* the list p.rsplit("/", 1): p itself when it holds no "/", else the text
\* before the last "/" and the text after it
rsplit(p) ==
    LET cut == LastSlash(p)
    IN IF cut = 0
       THEN <<p>>
       ELSE <<SubSeq(p, 1, cut - 1), SubSeq(p, cut + 1, Len(p))>>

-----------------------------------------------------------------------------
(* OSCQueryNode.find_subnode *)

RECURSIVE find_subnode_prefix(_, _, _)
\* a lookup that accepts a node whose path starts with the requested path
find_subnode_prefix(h, self, full_path) ==
    LET p == h[self].full_path
        walk[i \in 1..(Len(h[self].contents[1]) + 1)] ==
            IF i > Len(h[self].contents[1])
            THEN NoNode
            ELSE LET found_node == find_subnode_prefix(h, h[self].contents[1][i], full_path)
                 IN IF found_node # NoNode THEN found_node ELSE walk[i + 1]
    IN IF p # None /\ Len(p[1]) >= Len(full_path)
          /\ SubSeq(p[1], 1, Len(full_path)) = full_path
       THEN self
       ELSE IF h[self].contents = None
            THEN NoNode
            ELSE walk[1]

RECURSIVE find_subnode(_, _, _)
\* the node of the subtree of self whose full_path is full_path, NoNode if none:
\* self first, then each child's subtree in list order, stopping at the first hit
find_subnode(h, self, full_path) ==
    LET walk[i \in 1..(Len(h[self].contents[1]) + 1)] ==
            IF i > Len(h[self].contents[1])
            THEN NoNode
            ELSE LET found_node == find_subnode(h, h[self].contents[1][i], full_path)
                 IN IF found_node # NoNode THEN found_node ELSE walk[i + 1]
    IN IF h[self].full_path = Some(full_path)
       THEN self
       ELSE IF h[self].contents = None
            THEN NoNode
            ELSE walk[1]

-----------------------------------------------------------------------------
(* OSCQueryNode.add_child_node *)

\* lines 231-233: parent.contents is created when absent, child is appended
append_child(h, parent, child) ==
    [h EXCEPT ![parent].contents =
        IF @ = None THEN Some(<<child>>) ELSE Some(Append(@[1], child))]

\* lines 220-223: the parent path, "" normalised to "/"
parent_path_of(path_split) ==
    IF path_split[1] = <<>> THEN <<"/">> ELSE path_split[1]

\* an insertion that attaches the child to self when no parent is found,
\* instead of creating the parent
add_child_node_flat(h, self, child) ==
    IF child = self
    THEN [h |-> h, ok |-> TRUE]
    ELSE LET path_split == rsplit(h[child].full_path[1]) IN
         IF Len(path_split) < 2
         THEN [h |-> h, ok |-> FALSE]
         ELSE LET found == find_subnode(h, self, parent_path_of(path_split))
              IN [h |-> append_child(h, IF found # NoNode THEN found ELSE self, child),
                  ok |-> TRUE]

RECURSIVE add_child_node_unchecked(_, _, _)
\* an insertion that takes a path without "/" as a child of self instead of
\* raising NodeError
add_child_node_unchecked(h, self, child) ==
    IF child = self
    THEN [h |-> h, ok |-> TRUE]
    ELSE LET path_split == rsplit(h[child].full_path[1]) IN
         IF Len(path_split) < 2
         THEN [h |-> append_child(h, self, child), ok |-> TRUE]
         ELSE LET parent_path == parent_path_of(path_split)
                  found == find_subnode(h, self, parent_path)
              IN IF found # NoNode
                 THEN [h |-> append_child(h, found, child), ok |-> TRUE]
                 ELSE LET h1 == Append(h, OSCQueryNode(Some(parent_path), None, None, None, None))
                          parent == Len(h1)
                          r == add_child_node_unchecked(h1, self, parent)
                      IN [h |-> append_child(r.h, parent, child), ok |-> TRUE]

RECURSIVE add_child_node(_, _, _)
\* child is an object of h.  The result is the heap after the call and whether
\* the call returned (ok) or raised NodeError.
add_child_node(h, self, child) ==
    IF child = self
    THEN [h |-> h, ok |-> TRUE]
    ELSE LET path_split == rsplit(h[child].full_path[1]) IN
         IF Len(path_split) < 2
         THEN [h |-> h, ok |-> FALSE]
         ELSE LET parent_path == parent_path_of(path_split)
                  found == find_subnode(h, self, parent_path)
              IN IF found # NoNode
                 THEN [h |-> append_child(h, found, child), ok |-> TRUE]
                 ELSE LET h1 == Append(h, OSCQueryNode(Some(parent_path), None, None, None, None))
                          parent == Len(h1)
                          r == add_child_node(h1, self, parent)
                      IN IF r.ok
                         THEN [h |-> append_child(r.h, parent, child), ok |-> TRUE]
                         ELSE r

-----------------------------------------------------------------------------
(* OSCQueryNode.__iter__ *)

RECURSIVE iter(_, _)
\* the objects of the subtree of self in pre-order: self, then each child's
\* subtree in list order
iter(h, self) ==
    LET rest[i \in 1..(Len(h[self].contents[1]) + 1)] ==
            IF i > Len(h[self].contents[1])
            THEN <<>>
            ELSE iter(h, h[self].contents[1][i]) \o rest[i + 1]
    IN IF h[self].contents = None THEN <<self>> ELSE <<self>> \o rest[1]

\* the objects of the tree
Nodes(h) == LET all == iter(h, Root) IN {all[i] : i \in 1..Len(all)}

\* an object no reference leads to is freed: the objects a failed call
\* allocated and did not attach do not stay in the heap
Collect(h) ==
    LET live == Nodes(h)
    IN SubSeq(h, 1, CHOOSE n \in live : \A m \in live : m <= n)

-----------------------------------------------------------------------------
(* JSON values, as json.dumps writes them and json.loads reads them back *)

JNull == [j |-> "null"]
JNum(n) == [j |-> "num", num |-> n]
JStr(str) == [j |-> "str", str |-> str]
JBool(b) == [j |-> "bool", bool |-> b]
JArr(seq) == [j |-> "arr", arr |-> seq]
JObj(pairs) == [j |-> "obj", obj |-> pairs]

\* dict: k in d, d[k] and d[k] = v (a new key goes last, an old one keeps its place)
HasKey(d, k) == \E i \in 1..Len(d) : d[i][1] = k
Lookup(d, k) == d[CHOOSE i \in 1..Len(d) : d[i][1] = k][2]
DictSet(d, k, v) ==
    IF HasKey(d, k)
    THEN [i \in 1..Len(d) |-> IF d[i][1] = k THEN <<k, v>> ELSE d[i]]
    ELSE Append(d, <<k, v>>)

\* json.dumps of a Python scalar
ScalarToJson(x) ==
    CASE x.k = "int" -> JNum(x.num)
      [] x.k = "float" -> JNum(x.num)
      [] x.k = "bool" -> JBool(x.bool)
      [] x.k = "str" -> JStr(x.str)

-----------------------------------------------------------------------------
(* TypeMappings, OSC_Type_String_to_Python_Type, Python_Type_List_to_OSC_Type *)

\* a mapping that reads the tag h (a 64-bit integer in OSC) as int
OSC_TO_PYTHON_TYPES_h_int ==
    ("i" :> "int") @@
    ("f" :> "float") @@ ("h" :> "int") @@ ("d" :> "float") @@ ("t" :> "float") @@
    ("T" :> "bool") @@ ("F" :> "bool") @@
    ("s" :> "str")

OSC_TO_PYTHON_TYPES ==
    ("i" :> "int") @@
    ("f" :> "float") @@ ("h" :> "float") @@ ("d" :> "float") @@ ("t" :> "float") @@
    ("T" :> "bool") @@ ("F" :> "bool") @@
    ("s" :> "str")

PYTHON_TO_OSC_TYPES ==
    ("int" :> "i") @@ ("float" :> "f") @@ ("bool" :> "T") @@ ("str" :> "s")

\* a conversion that leaves an unknown tag out instead of raising
OSC_Type_String_to_Python_Type_skipping(typestr) ==
    LET known[i \in 0..Len(typestr)] ==
            IF i = 0 THEN <<>>
            ELSE IF typestr[i] \in DOMAIN OSC_TO_PYTHON_TYPES
                 THEN Append(known[i - 1], OSC_TO_PYTHON_TYPES[typestr[i]])
                 ELSE known[i - 1]
    IN [ok |-> TRUE, v |-> known[Len(typestr)]]

\* the list of types of a type string; an unknown tag raises ValueError
OSC_Type_String_to_Python_Type(typestr) ==
    IF \A i \in 1..Len(typestr) : typestr[i] \in DOMAIN OSC_TO_PYTHON_TYPES
    THEN [ok |-> TRUE, v |-> [i \in 1..Len(typestr) |-> OSC_TO_PYTHON_TYPES[typestr[i]]]]
    ELSE [ok |-> FALSE, err |-> "ValueError"]

\* the type string of a list of types; an unknown type raises ValueError
Python_Type_List_to_OSC_Type(types_) ==
    IF \A i \in 1..Len(types_) : types_[i] \in DOMAIN PYTHON_TO_OSC_TYPES
    THEN [ok |-> TRUE, v |-> [i \in 1..Len(types_) |-> PYTHON_TO_OSC_TYPES[types_[i]]]]
    ELSE [ok |-> FALSE, err |-> "ValueError"]

-----------------------------------------------------------------------------
(* OSCNodeEncoder._serialize_osc_query_node, applied by json.dumps to a node *)
(* and, through default(), to every node inside it                          *)

\* sub_node.full_path.split("/")[-1]
last_segment(path) == LET parts == rsplit(path) IN parts[Len(parts)]

\* lines 71-73: obj_dict["TYPE"] is the type string of a node that has types
\* (always of known types here) and None for any other node
serialize_type(d, type_) ==
    DictSet(d, <<"TYPE">>,
            IF type_ # None /\ type_[1] # <<>>
            THEN JStr(Python_Type_List_to_OSC_Type(type_[1]).v)
            ELSE JNull)

RECURSIVE serialize_osc_query_node(_, _)
\* the JSON object of node o: the fields that are not None under their
\* upper-cased names in the order of vars(o), then TYPE, with CONTENTS
\* replaced by the mapping of its children when there are any
serialize_osc_query_node(h, o) ==
    LET n == h[o]
        kids == n.contents[1]
        \* lines 77-81: the dict comprehension over o.contents
        contents_dict[i \in 0..Len(kids)] ==
            IF i = 0
            THEN <<>>
            ELSE IF h[kids[i]].full_path # None
                 THEN DictSet(contents_dict[i - 1],
                              last_segment(h[kids[i]].full_path[1]),
                              serialize_osc_query_node(h, kids[i]))
                 ELSE contents_dict[i - 1]
        \* lines 64-68: the fields that are not None
        d1 == IF n.contents # None
              THEN <<<< <<"CONTENTS">>,
                        JArr([i \in 1..Len(kids) |-> serialize_osc_query_node(h, kids[i])]) >>>>
              ELSE <<>>
        d2 == IF n.full_path # None
              THEN Append(d1, << <<"FULL_PATH">>, JStr(n.full_path[1]) >>) ELSE d1
        d3 == IF n.access # None
              THEN Append(d2, << <<"ACCESS">>, JNum(n.access[1]) >>) ELSE d2
        d4 == IF n.value # None
              THEN Append(d3, << <<"VALUE">>,
                       JArr([i \in 1..Len(n.value[1]) |-> ScalarToJson(n.value[1][i])]) >>)
              ELSE d3
        d5 == IF n.description # None
              THEN Append(d4, << <<"DESCRIPTION">>, JStr(n.description[1]) >>) ELSE d4
        d6 == serialize_type(d5, n.type_)
    IN JObj(IF n.contents # None /\ kids # <<>>
            THEN DictSet(d6, <<"CONTENTS">>, JObj(contents_dict[Len(kids)]))
            ELSE d6)

\* OSCQueryNode.to_json, read as the JSON value of the text it returns
to_json(h, o) == serialize_osc_query_node(h, o)

-----------------------------------------------------------------------------
(* OSCQueryClient._make_node_from_json *)

\* a call that raised
Raise(err) == [ok |-> FALSE, err |-> err]

\* bool(v) of a decoded JSON value
Truthy(v) ==
    CASE v.j = "null" -> FALSE
      [] v.j = "num" -> v.num # 0
      [] v.j = "bool" -> v.bool
      [] v.j = "str" -> v.str # <<>>
      [] v.j = "arr" -> v.arr # <<>>
      [] v.j = "obj" -> v.obj # <<>>

\* int(v) and float(v) of a decoded JSON value: a number or a bool is
\* converted, a text that is no numeral (every text here) raises ValueError,
\* None, a list or a dict raises TypeError
Number(kind, v) ==
    CASE v.j = "num" -> [ok |-> TRUE, v |-> [k |-> kind, num |-> v.num]]
      [] v.j = "bool" -> [ok |-> TRUE, v |-> [k |-> kind, num |-> IF v.bool THEN 1 ELSE 0]]
      [] v.j = "str" -> Raise("ValueError")
      [] OTHER -> Raise("TypeError")

\* type_(v): the constructor of a Python type applied to a decoded JSON value;
\* bool and str take anything (the text of a value that is no text is <<"repr">>)
Construct(kind, v) ==
    CASE kind \in {"int", "float"} -> Number(kind, v)
      [] kind = "bool" -> [ok |-> TRUE, v |-> PyBool(Truthy(v))]
      [] kind = "str" -> [ok |-> TRUE, v |-> PyStr(IF v.j = "str" THEN v.str ELSE <<"repr">>)]

\* isinstance(v, dict) and not v
IsEmptyObject(v) == v.j = "obj" /\ v.obj = <<>>

\* lines 333-336: the list comprehension over json["VALUE"], a list.  Elements
\* are taken in order; one that is {} is left out, and so is every element when
\* the node has no types; any other is constructed by the type at its own index
\* in the array, and the first failure (no type at that index, or the
\* constructor) ends the comprehension.
decode_values(type_, values) ==
    LET step[i \in 0..Len(values)] ==
            IF i = 0
            THEN [ok |-> TRUE, v |-> <<>>]
            ELSE LET sofar == step[i - 1] IN
                 IF ~sofar.ok
                 THEN sofar
                 ELSE IF IsEmptyObject(values[i]) \/ type_ = None \/ type_[1] = <<>>
                      THEN sofar
                      ELSE IF i > Len(type_[1])
                           THEN Raise("IndexError")
                           ELSE LET x == Construct(type_[1][i], values[i])
                                IN IF x.ok
                                   THEN [ok |-> TRUE, v |-> Append(sofar.v, x.v)]
                                   ELSE x
    IN step[Len(values)]

\* json.get(key): the Python value of a present key that is not null
GetField(json, key) ==
    IF HasKey(json, key) /\ Lookup(json, key) # JNull
    THEN Some(IF Lookup(json, key).j = "num" THEN Lookup(json, key).num
              ELSE Lookup(json, key).str)
    ELSE None

\* lines 326-329: type_ of a document; a TYPE that is null (or any value that
\* is no text) cannot be iterated as one and raises TypeError
decode_type(json) ==
    IF ~HasKey(json, <<"TYPE">>)
    THEN [ok |-> TRUE, v |-> None]
    ELSE IF Lookup(json, <<"TYPE">>).j # "str"
         THEN Raise("TypeError")
         ELSE LET t == OSC_Type_String_to_Python_Type(Lookup(json, <<"TYPE">>).str)
              IN IF t.ok THEN [ok |-> TRUE, v |-> Some(t.v)] ELSE t

\* lines 308-313: VALUE is there, is not null and is no list
value_is_malformed(json) ==
    /\ HasKey(json, <<"VALUE">>)
    /\ Lookup(json, <<"VALUE">>).j \notin {"null", "arr"}

RECURSIVE make_node_from_json(_, _)
\* json is the dict of a node document.  The result is ok with the heap h that
\* holds the new objects and node, the object built, or not ok with the
\* exception raised.
make_node_from_json(h, json) ==
    IF value_is_malformed(json)
    THEN Raise("ValueError")
    ELSE LET \* lines 321-324: the children, in the order of the keys of CONTENTS
             \* (a CONTENTS that is no mapping is empty here)
             kids == IF HasKey(json, <<"CONTENTS">>) /\ Lookup(json, <<"CONTENTS">>).j = "obj"
                     THEN Lookup(json, <<"CONTENTS">>).obj
                     ELSE <<>>
             built[i \in 0..Len(kids)] ==
                 IF i = 0
                 THEN [ok |-> TRUE, h |-> h, ids |-> <<>>]
                 ELSE LET sofar == built[i - 1] IN
                      IF ~sofar.ok
                      THEN sofar
                      ELSE LET sub == make_node_from_json(sofar.h, kids[i][2].obj)
                           IN IF sub.ok
                              THEN [ok |-> TRUE, h |-> sub.h, ids |-> Append(sofar.ids, sub.node)]
                              ELSE sub
             contents == built[Len(kids)]
             type_ == decode_type(json)
             value == IF HasKey(json, <<"VALUE">>) /\ Lookup(json, <<"VALUE">>).j = "arr"
                      THEN decode_values(type_.v, Lookup(json, <<"VALUE">>).arr)
                      ELSE [ok |-> TRUE, v |-> <<>>]
         IN IF ~contents.ok THEN contents
            ELSE IF ~type_.ok THEN type_
            ELSE IF ~value.ok THEN value
            ELSE LET new_node ==
                         [ contents    |-> Some(contents.ids),
                           full_path   |-> GetField(json, <<"FULL_PATH">>),
                           access      |-> GetField(json, <<"ACCESS">>),
                           type_       |-> type_.v,
                           value       |-> Some(value.v),
                           description |-> GetField(json, <<"DESCRIPTION">>) ]
                 IN [ok |-> TRUE, h |-> Append(contents.h, new_node),
                     node |-> Len(contents.h) + 1]

-----------------------------------------------------------------------------
(* Inputs *)

\* path segments: one is a proper prefix of the other
Segs == {<<"a">>, <<"a", "b">>}

RECURSIVE PathsOfDepth(_)
\* the absolute paths of exactly d segments that are not longer than MaxPathLen
PathsOfDepth(d) ==
    IF d = 0
    THEN {<<>>}
    ELSE {q \in {p \o <<"/">> \o s : p \in PathsOfDepth(d - 1), s \in Segs} :
             Len(q) <= MaxPathLen}

AbsPaths == UNION {PathsOfDepth(d) : d \in 1..MaxPathLen}

\* the root's own path "/", and the relative paths "a" and "a/a"
OddPaths == {<<"/">>, <<"a">>, <<"a", "/", "a">>}

InsertPaths == AbsPaths \cup OddPaths

\* the value argument of advertise_endpoint: None or the scalar 1
AdvertisedValues == {None, Some(PyInt(1))}

-----------------------------------------------------------------------------
(* OSCQueryService: the tree and its insertion API *)

\* __init__, line 44: root_node = OSCQueryNode("/", description="root node")
Init ==
    /\ heap = <<OSCQueryNode(Some(<<"/">>), None, None, Some(<<"root node">>), None)>>
    /\ prev = heap
    /\ last = [op |-> "init", child |-> NoNode, path |-> <<>>, ok |-> TRUE]
    /\ nops = 0
    /\ last_json = None
    /\ result = [ok |-> TRUE, h |-> <<>>, node |-> NoNode]
    /\ frames = <<>>
    /\ response = None
    /\ oscjson_services = <<>>
    /\ returned = None
    /\ argument = None
    /\ conversions = <<>>

\* the state after root_node.add_child_node(child), child the newest object of h
Called(h, op) ==
    LET child == Len(h)
        r == add_child_node(h, Root, child)
    IN /\ heap' = Collect(r.h)
       /\ prev' = heap
       /\ last' = [op |-> op, child |-> child, path |-> h[child].full_path[1], ok |-> r.ok]
       /\ nops' = nops + 1
       /\ UNCHANGED <<client_vars, server_vars, browser_vars, type_vars>>

\* add_node(OSCQueryNode(path)): the node of the examples, with a path only
add_node(path) ==
    /\ nops < MaxOps
    /\ Called(Append(heap, OSCQueryNode(Some(path), None, None, None, None)), "add_node")

\* advertise_endpoint(address, value): lines 130-138, for no value or a scalar one
advertise_endpoint(address, value) ==
    /\ nops < MaxOps
    /\ LET new_node ==
               IF value = None
               THEN OSCQueryNode(Some(address), None, Some(READWRITE_VALUE), None, None)
               ELSE OSCQueryNode(Some(address), Some(<<value[1].k>>),
                                 Some(READWRITE_VALUE), None, Some(<<value[1]>>))
       IN Called(Append(heap, new_node), "advertise_endpoint")

\* add_node(root_node): the root is inserted into itself
add_root ==
    /\ nops < MaxOps
    /\ LET r == add_child_node(heap, Root, Root)
       IN /\ heap' = Collect(r.h)
          /\ prev' = heap
          /\ last' = [op |-> "add_root", child |-> Root,
                       path |-> heap[Root].full_path[1], ok |-> r.ok]
          /\ nops' = nops + 1
          /\ UNCHANGED <<client_vars, server_vars, browser_vars, type_vars>>

Next ==
    \/ \E path \in InsertPaths : add_node(path)
    \/ \E address \in InsertPaths, value \in AdvertisedValues :
           advertise_endpoint(address, value)
    \/ add_root

Spec == Init /\ [][Next]_vars

-----------------------------------------------------------------------------
(* OSCQueryClient.query_node: the documents a service may answer with *)

\* every sequence over S of length at most n
SeqsUpTo(S, n) == UNION {[1..k -> S] : k \in 0..n}

\* tags of a TYPE string: int, str, and one that is no OSC type
DocTags == {"i", "s", "x"}

\* elements of a VALUE array: a number, the empty object, a text
DocElements == {JNum(1), JObj(<<>>), JStr(<<"s">>)}

\* TYPE: absent (<<>>), or present as null or as a type string
DocTypes == {<<>>} \cup {<< <<<<"TYPE">>, t>> >> : t \in {JNull} \cup {JStr(ts) : ts \in SeqsUpTo(DocTags, MaxTypeLen)}}

\* VALUE: absent, or present as null, an object, a text, a number, a boolean
\* or an array
DocValues ==
    {<<>>} \cup
    {<< <<<<"VALUE">>, v>> >> :
        v \in {JNull, JObj(<< <<<<"a">>, JNum(1)>> >>), JStr(<<"s">>), JNum(0), JBool(TRUE)}
              \cup {JArr(vs) : vs \in SeqsUpTo(DocElements, MaxValueLen)}}

\* documents of a node without children
FlatDocs == {t \o v : t \in DocTypes, v \in DocValues}

\* documents of a node whose CONTENTS holds one child, keyed "a"
NestedDocs == {<< <<<<"CONTENTS">>, JObj(<< <<<<"a">>, JObj(d)>> >>)>> >> : d \in FlatDocs}

\* lines 266-267, for a request that was answered 200 with document json:
\* last_json = response.json(); return self._make_node_from_json(self.last_json).
\* The outcome depends on json alone: a behaviour follows a client through its
\* first query.
query_node(json) ==
    /\ last_json = None
    /\ last_json' = Some(json)
    /\ result' = make_node_from_json(<<>>, json)
    /\ UNCHANGED <<tree_vars, server_vars, browser_vars, type_vars>>

NextClient ==
    \/ \E json \in FlatDocs : query_node(json)
    \/ \E json \in NestedDocs : query_node(json)

SpecClient == Init /\ [][NextClient]_vars

-----------------------------------------------------------------------------
(* OSCQueryClient over HTTP: _handle_request, query_node, get_host_info *)

\* what requests.get meets: a connection failure, another exception (a
\* timeout), or a response with a status code and, when it is 200, a JSON body
NoReply(net) == [net |-> net, status_code |-> 0, json |-> JNull]
Response(status_code, json) == [net |-> "response", status_code |-> status_code, json |-> json]

\* a handling of every response as an error unless it is 200
handle_request_raise_for_status(reply) ==
    IF reply.net # "response"
    THEN [ok |-> TRUE, v |-> None]
    ELSE IF reply.status_code # 200
         THEN Raise("HTTPError")
         ELSE [ok |-> TRUE, v |-> Some(reply)]

\* _handle_request: ConnectionError is passed over, any other exception is
\* printed; then no response or a 404 returns None, a status other than 200
\* raises HTTPError, and a 200 returns the response
handle_request(reply) ==
    LET response_ == IF reply.net = "response" THEN Some(reply) ELSE None
    IN IF response_ = None \/ response_[1].status_code = 404
       THEN [ok |-> TRUE, v |-> None]
       ELSE IF response_[1].status_code # 200
            THEN Raise("HTTPError")
            ELSE [ok |-> TRUE, v |-> response_]

\* str(int(num)) of every element of a sequence, joined by sep
join(sep, nums) ==
    [i \in 1..(2 * Len(nums) - 1) |->
        IF i % 2 = 1 THEN ToString(nums[(i + 1) \div 2]) ELSE sep]

\* _get_ip_str: the first address of the service, as dotted decimal text
get_ip_str(service_info) == join(".", service_info.addresses[1])

\* a bound method of the client, as a value
Method(name) == [j |-> "method", name |-> name]

\* dict.get(key, default) on a decoded JSON object
Get(json, key, default) == IF HasKey(json, key) THEN Lookup(json, key) ELSE default

\* OSCHostInfo.__init__(name, extensions)
OSCHostInfo(name, extensions) ==
    [ name          |-> name,
      osc_ip        |-> JNull,
      osc_port      |-> JNull,
      osc_transport |-> JNull,
      ws_ip         |-> JNull,
      ws_port       |-> JNull,
      extensions    |-> extensions ]

\* get_host_info of the client of service_info, its request meeting reply: the
\* outcome of _handle_request (handled) and of the call (ret)
get_host_info(service_info, reply) ==
    LET handled == handle_request(reply)
        json == handled.v[1].json.obj
        hi == OSCHostInfo(Lookup(json, <<"NAME">>), Get(json, <<"EXTENSIONS">>, JArr(<<>>)))
    IN [ handled |-> handled,
         ret |-> IF ~handled.ok THEN handled
                 ELSE IF handled.v = None THEN [ok |-> TRUE, v |-> None]
                 ELSE IF ~HasKey(json, <<"NAME">>) THEN Raise("KeyError")
                 ELSE [ok |-> TRUE,
                       v |-> Some([hi EXCEPT
                           !.osc_ip = Get(json, <<"OSC_IP">>, Method(<<"_get_ip_str">>)),
                           !.osc_port = Get(json, <<"OSC_PORT">>, JNum(service_info.port)),
                           !.osc_transport = Get(json, <<"OSC_TRANSPORT">>, JStr(<<"UDP">>))])] ]

\* query_node of a client, its request meeting reply: the node is kept with
\* the heap it lives in
client_query_node(reply) ==
    LET handled == handle_request(reply)
        made == make_node_from_json(<<>>, handled.v[1].json.obj)
    IN [ handled |-> handled,
         ret |-> IF ~handled.ok THEN handled
                 ELSE IF handled.v = None THEN [ok |-> TRUE, v |-> None]
                 ELSE IF ~made.ok THEN made
                 ELSE [ok |-> TRUE, v |-> Some([h |-> made.h, node |-> made.node])] ]

-----------------------------------------------------------------------------
(* Discovery: OSCQueryListener and OSCQueryBrowser *)

\* the names of the OSCQuery services on the network: "s", "ss", ...
ServiceNames == {[i \in 1..k |-> "s"] : k \in 1..MaxServices}

\* zc.get_service_info("_oscjson._tcp.local.", name)
ServiceInfo(name) ==
    [ name      |-> name,
      addresses |-> <<<<10, 0, 0, Len(name)>>>>,
      port      |-> 9000 + Len(name) ]

\* the address looked for by find_nodes_by_endpoint_address
BrowsedAddress == <<"/", "a">>

\* host-info documents: NAME alone, no NAME at all, every field
HostInfoDocs ==
    {JObj(<< << <<"NAME">>, JStr(n) >> >>) : n \in ServiceNames} \cup
    { JObj(<<>>),
      JObj(<< << <<"OSC_PORT">>, JNum(5) >> >>),
      JObj(<< << <<"NAME">>, JStr(<<"s">>) >>,
              << <<"EXTENSIONS">>, JObj(<< << <<"ACCESS">>, JBool(TRUE) >> >>) >>,
              << <<"OSC_IP">>, JStr(<<"1.2.3.4">>) >>,
              << <<"OSC_PORT">>, JNum(5) >>,
              << <<"OSC_TRANSPORT">>, JStr(<<"TCP">>) >> >>) }

\* what a request may meet
Failures ==
    {NoReply("ConnectionError"), NoReply("Timeout")} \cup
    {Response(c, JNull) : c \in {204, 404, 500}}

\* what GET /HOST_INFO may meet
HostReplies == Failures \cup {Response(200, d) : d \in HostInfoDocs}

\* what GET of a node path may meet: with 200, a node document or one whose
\* VALUE is malformed
NodeReplies ==
    Failures \cup
    { Response(200, JObj(<< << <<"FULL_PATH">>, JStr(BrowsedAddress) >> >>)),
      Response(200, JObj(<< << <<"VALUE">>, JStr(<<"s">>) >> >>)) }

\* the peers a browser meets: one that refuses connections, one that has no
\* /HOST_INFO, one that answers 500, and one that serves its host info under
\* its own name, with or without a node at the address
Peers == {"down", "no_host_info", "broken", "up", "up_without_node"}

\* what GET /HOST_INFO meets at a peer
host_reply(peer, service_info) ==
    CASE peer = "down" -> NoReply("ConnectionError")
      [] peer = "no_host_info" -> Response(404, JNull)
      [] peer = "broken" -> Response(500, JNull)
      [] OTHER -> Response(200, JObj(<< << <<"NAME">>, JStr(service_info.name) >> >>))

\* what GET address meets at a peer
node_reply(peer, address) ==
    CASE peer = "down" -> NoReply("ConnectionError")
      [] peer \in {"broken", "up_without_node"} -> Response(404, JNull)
      [] OTHER -> Response(200, JObj(<< << <<"FULL_PATH">>, JStr(address) >> >>))

\* name in text, for two texts
Contains(name, text) ==
    \E i \in 1..(Len(text) + 1) :
        /\ i + Len(name) - 1 <= Len(text)
        /\ SubSeq(text, i, i + Len(name) - 1) = name

\* find_service_by_name over the discovered services, service i being peer
\* peers[i]: the first service whose host info holds name in its NAME; a
\* host info that is None has no attribute name
find_service_by_name(services, name, peers) ==
    LET walk[i \in 1..(Len(services) + 1)] ==
            IF i > Len(services)
            THEN [ok |-> TRUE, v |-> None]
            ELSE LET hi == get_host_info(services[i], host_reply(peers[i], services[i])).ret
                 IN IF ~hi.ok THEN hi
                    ELSE IF hi.v = None THEN Raise("AttributeError")
                    ELSE IF hi.v[1].name.j # "str" THEN Raise("TypeError")
                    ELSE IF Contains(name, hi.v[1].name.str)
                         THEN [ok |-> TRUE, v |-> Some(services[i])]
                         ELSE walk[i + 1]
    IN walk[1]

\* find_nodes_by_endpoint_address: for each discovered service with a host
\* info and a node at address, the service, the host info and the node
find_nodes_by_endpoint_address(services, address, peers) ==
    LET svcs[i \in 0..Len(services)] ==
            IF i = 0
            THEN [ok |-> TRUE, v |-> <<>>]
            ELSE LET sofar == svcs[i - 1]
                     hi == get_host_info(services[i], host_reply(peers[i], services[i])).ret
                     node_ == client_query_node(node_reply(peers[i], address)).ret
                 IN IF ~sofar.ok THEN sofar
                    ELSE IF ~hi.ok THEN hi
                    ELSE IF hi.v = None THEN sofar
                    ELSE IF ~node_.ok THEN node_
                    ELSE IF node_.v = None THEN sofar
                    ELSE [ok |-> TRUE,
                          v |-> Append(sofar.v, <<services[i], hi.v[1], node_.v[1]>>)]
    IN svcs[Len(services)]

\* the elements of seq at the indices in S, in order
Pick(seq, S) ==
    LET f[i \in 0..Len(seq)] ==
            IF i = 0 THEN <<>>
            ELSE IF i \in S THEN Append(f[i - 1], seq[i]) ELSE f[i - 1]
    IN f[Len(seq)]

\* OSCQueryListener.add_service / update_service for an OSCQuery service:
\* oscjson_services[name] = zc.get_service_info(type_, name)
add_service(name) ==
    /\ returned = None
    /\ oscjson_services' =
           IF \E i \in 1..Len(oscjson_services) : oscjson_services[i].name = name
           THEN [i \in 1..Len(oscjson_services) |->
                    IF oscjson_services[i].name = name THEN ServiceInfo(name)
                    ELSE oscjson_services[i]]
           ELSE Append(oscjson_services, ServiceInfo(name))
    /\ UNCHANGED <<tree_vars, client_vars, server_vars, type_vars, returned>>

\* OSCQueryListener.remove_service: del oscjson_services[name] when it is there
remove_service(name) ==
    /\ returned = None
    /\ oscjson_services' =
           Pick(oscjson_services,
                {i \in 1..Len(oscjson_services) : oscjson_services[i].name # name})
    /\ UNCHANGED <<tree_vars, client_vars, server_vars, type_vars, returned>>

\* OSCQueryClient(svc).get_host_info() for the discovered service i, the
\* request meeting reply
request_host_info(i, reply) ==
    /\ returned = None
    /\ i \in 1..Len(oscjson_services)
    /\ LET call == get_host_info(oscjson_services[i], reply)
       IN returned' = Some([ op |-> "get_host_info", service_info |-> oscjson_services[i],
                             reply |-> reply, handled |-> call.handled, ret |-> call.ret ])
    /\ UNCHANGED <<tree_vars, client_vars, server_vars, type_vars, oscjson_services>>

\* OSCQueryClient(svc).query_node(address) for the discovered service i
request_node(i, reply) ==
    /\ returned = None
    /\ i \in 1..Len(oscjson_services)
    /\ LET call == client_query_node(reply)
       IN returned' = Some([ op |-> "query_node", service_info |-> oscjson_services[i],
                             reply |-> reply, handled |-> call.handled, ret |-> call.ret ])
    /\ UNCHANGED <<tree_vars, client_vars, server_vars, type_vars, oscjson_services>>

\* OSCQueryBrowser.find_service_by_name(name), the services being peers
browse_by_name(name, peers) ==
    /\ returned = None
    /\ returned' = Some([ op |-> "find_service_by_name", name |-> name, peers |-> peers,
                          ret |-> find_service_by_name(oscjson_services, name, peers) ])
    /\ UNCHANGED <<tree_vars, client_vars, server_vars, type_vars, oscjson_services>>

\* OSCQueryBrowser.find_nodes_by_endpoint_address(address)
browse_by_endpoint_address(address, peers) ==
    /\ returned = None
    /\ returned' = Some([ op |-> "find_nodes_by_endpoint_address", address |-> address,
                          peers |-> peers,
                          ret |-> find_nodes_by_endpoint_address(oscjson_services, address, peers) ])
    /\ UNCHANGED <<tree_vars, client_vars, server_vars, type_vars, oscjson_services>>

NextBrowser ==
    \/ \E name \in ServiceNames : add_service(name)
    \/ \E name \in ServiceNames : remove_service(name)
    \/ \E i \in 1..MaxServices, reply \in HostReplies : request_host_info(i, reply)
    \/ \E i \in 1..MaxServices, reply \in NodeReplies : request_node(i, reply)
    \/ \E name \in ServiceNames, peers \in [1..Len(oscjson_services) -> Peers] :
           browse_by_name(name, peers)
    \/ \E peers \in [1..Len(oscjson_services) -> Peers] :
           browse_by_endpoint_address(BrowsedAddress, peers)

SpecBrowser == Init /\ [][NextBrowser]_vars

-----------------------------------------------------------------------------
(* The type conversions on their own: a type string or a list of types is   *)
(* converted, and the result of a conversion that returned is converted back *)

\* the tags of a type string: the eight OSC tags and one that is none
TypeTags == DOMAIN OSC_TO_PYTHON_TYPES \cup {"x"}

\* the types of a list of types: the four mapped types and one that is not
PythonTypes == DOMAIN PYTHON_TO_OSC_TYPES \cup {"NoneType"}

\* the arguments of the first conversion
TypeStrings == SeqsUpTo(TypeTags, MaxTypeLen)
TypeLists == SeqsUpTo(PythonTypes, MaxTypeLen)

InitTypes ==
    /\ heap = <<OSCQueryNode(Some(<<"/">>), None, None, Some(<<"root node">>), None)>>
    /\ prev = heap
    /\ last = [op |-> "init", child |-> NoNode, path |-> <<>>, ok |-> TRUE]
    /\ nops = 0
    /\ last_json = None
    /\ result = [ok |-> TRUE, h |-> <<>>, node |-> NoNode]
    /\ frames = <<>>
    /\ response = None
    /\ oscjson_services = <<>>
    /\ returned = None
    /\ argument \in {Some([typestr |-> t]) : t \in TypeStrings}
                     \cup {Some([types_ |-> t]) : t \in TypeLists}
    /\ conversions = <<>>

\* the argument of the next call of function fn, the other function being
\* other: the first argument when it is of the kind named by param, or the
\* value the last call returned when that was a call of other
NextArgument(fn, param, other) ==
    IF conversions = <<>>
    THEN IF param \in DOMAIN argument[1] THEN Some(argument[1][param]) ELSE None
    ELSE LET c == conversions[Len(conversions)]
         IN IF c.fn = other /\ c.ret.ok THEN Some(c.ret.v) ELSE None

\* OSC_Type_String_to_Python_Type is called
convert_typestr ==
    /\ Len(conversions) < MaxCalls
    /\ LET a == NextArgument("OSC_Type_String_to_Python_Type", "typestr",
                             "Python_Type_List_to_OSC_Type")
       IN /\ a # None
          /\ conversions' = Append(conversions,
                 [fn |-> "OSC_Type_String_to_Python_Type", arg |-> a[1],
                  ret |-> OSC_Type_String_to_Python_Type(a[1])])
    /\ UNCHANGED <<tree_vars, client_vars, server_vars, browser_vars, argument>>

\* Python_Type_List_to_OSC_Type is called
convert_types ==
    /\ Len(conversions) < MaxCalls
    /\ LET a == NextArgument("Python_Type_List_to_OSC_Type", "types_",
                             "OSC_Type_String_to_Python_Type")
       IN /\ a # None
          /\ conversions' = Append(conversions,
                 [fn |-> "Python_Type_List_to_OSC_Type", arg |-> a[1],
                  ret |-> Python_Type_List_to_OSC_Type(a[1])])
    /\ UNCHANGED <<tree_vars, client_vars, server_vars, browser_vars, argument>>

NextTypes ==
    \/ convert_typestr
    \/ convert_types

SpecTypes == InitTypes /\ [][NextTypes]_vars

-----------------------------------------------------------------------------
(* The running service: the main thread calls add_node / advertise_endpoint  *)
(* while the HTTP server thread (start, lines 78-84) answers GET requests    *)
(* from the same root_node.  No lock is taken on either side; the threads    *)
(* interleave between the statements of add_child_node.  A frame is one      *)
(* activation of add_child_node: at "enter" it has not run yet, at "append"  *)
(* it has its parent and is about to run lines 231-233 (after the recursive  *)
(* call of line 229 returns, when it made one).                              *)

\* paths inserted into the running service
ServicePaths ==
    { <<"/", "a">>, <<"/", "a", "/", "a">>,
      <<"/", "HOST_INFO">>, <<"/", "a", "/", "HOST_INFO">> }

\* paths requested from it
RequestPaths == ServicePaths \cup { <<"/">>, <<"/", "a", "b">> }

\* OSCHostInfo.to_json of the host_info of __init__, lines 45-52 (the service
\* of tinytest.py); ws_ip and ws_port are None and left out
host_info_to_json ==
    JObj(<< << <<"NAME">>, JStr(<<"Test-Service">>) >>,
            << <<"OSC_IP">>, JStr(<<"127.0.0.1">>) >>,
            << <<"OSC_PORT">>, JNum(9020) >>,
            << <<"OSC_TRANSPORT">>, JStr(<<"UDP">>) >>,
            << <<"EXTENSIONS">>,
               JObj(<< << <<"ACCESS">>, JBool(TRUE) >>, << <<"CLIPMODE">>, JBool(FALSE) >>,
                       << <<"RANGE">>, JBool(TRUE) >>, << <<"TYPE">>, JBool(TRUE) >>,
                       << <<"VALUE">>, JBool(TRUE) >> >>) >> >>)

\* 'HOST_INFO' in self.path
mentions_host_info(path) == \E i \in 1..Len(path) : path[i] = "HOST_INFO"

\* do_GET: the status and body written for a request path, from the tree h
do_GET_answer(h, path) ==
    IF mentions_host_info(path)
    THEN [status |-> 200, body |-> host_info_to_json]
    ELSE LET node == find_subnode(h, Root, path)
         IN IF node = NoNode
            THEN [status |-> 404, body |-> JStr(<<"OSC Path not found">>)]
            ELSE [status |-> 200, body |-> to_json(h, node)]

\* the main thread enters add_node(node), node the newest object of h
Begin(h, op) ==
    /\ frames = <<>>
    /\ nops < MaxOps
    /\ heap' = h
    /\ prev' = heap
    /\ last' = [op |-> op, child |-> Len(h), path |-> h[Len(h)].full_path[1], ok |-> TRUE]
    /\ frames' = <<[child |-> Len(h), parent |-> NoNode, pc |-> "enter"]>>
    /\ UNCHANGED <<nops, client_vars, response, browser_vars, type_vars>>

begin_add_node(path) ==
    Begin(Append(heap, OSCQueryNode(Some(path), None, None, None, None)), "add_node")

begin_advertise_endpoint(address) ==
    Begin(Append(heap, OSCQueryNode(Some(address), Some(<<"int">>), Some(READWRITE_VALUE),
                                    None, Some(<<PyInt(1)>>))),
          "advertise_endpoint")

\* the activation on top runs lines 210-229: it returns at once, raises
\* NodeError through every caller, finds its parent, or creates the parent
\* and calls add_child_node for it; a call that does not fit on the stack
\* raises RecursionError through every caller
resolve ==
    /\ frames # <<>>
    /\ frames[Len(frames)].pc = "enter"
    /\ LET top == Len(frames)
           child == frames[top].child
           path_split == rsplit(heap[child].full_path[1])
           found == find_subnode(heap, Root, parent_path_of(path_split))
       IN IF child = Root
          THEN /\ frames' = SubSeq(frames, 1, top - 1)
               /\ nops' = IF top = 1 THEN nops + 1 ELSE nops
               /\ UNCHANGED <<heap, last>>
          ELSE IF Len(path_split) < 2
          THEN /\ frames' = <<>>
               /\ heap' = Collect(heap)
               /\ last' = [last EXCEPT !.ok = FALSE]
               /\ nops' = nops + 1
          ELSE IF found # NoNode
          THEN /\ frames' = [frames EXCEPT ![top].parent = found, ![top].pc = "append"]
               /\ UNCHANGED <<heap, last, nops>>
          ELSE IF top = RecursionLimit
          THEN /\ frames' = <<>>
               /\ heap' = Collect(heap)
               /\ last' = [last EXCEPT !.ok = FALSE]
               /\ nops' = nops + 1
          ELSE /\ heap' = Append(heap, OSCQueryNode(Some(parent_path_of(path_split)),
                                                    None, None, None, None))
               /\ frames' = Append([frames EXCEPT ![top].parent = Len(heap) + 1,
                                                  ![top].pc = "append"],
                                   [child |-> Len(heap) + 1, parent |-> NoNode, pc |-> "enter"])
               /\ UNCHANGED <<last, nops>>
    /\ UNCHANGED <<prev, client_vars, response, browser_vars, type_vars>>

\* the activation on top runs lines 231-233 and returns
append ==
    /\ frames # <<>>
    /\ frames[Len(frames)].pc = "append"
    /\ heap' = append_child(heap, frames[Len(frames)].parent, frames[Len(frames)].child)
    /\ frames' = SubSeq(frames, 1, Len(frames) - 1)
    /\ nops' = IF Len(frames) = 1 THEN nops + 1 ELSE nops
    /\ UNCHANGED <<prev, last, client_vars, response, browser_vars, type_vars>>

\* the tree as it is once the call in progress has returned or raised: the
\* call made at once on the tree as it was when the call started
AfterCall ==
    Collect(add_child_node(Append(prev, heap[frames[1].child]), Root, Len(prev) + 1).h)

\* the server thread answers GET path.  Kept with the answer: the answers the
\* same request gets from the tree as it was before the call in progress and
\* as it is after it (both the answer itself when no call is in progress).
do_GET(path) ==
    /\ response' = Some([ path   |-> path,
                          answer |-> do_GET_answer(heap, path),
                          before |-> IF frames = <<>> THEN do_GET_answer(heap, path)
                                     ELSE do_GET_answer(prev, path),
                          after  |-> IF frames = <<>> THEN do_GET_answer(heap, path)
                                     ELSE do_GET_answer(AfterCall, path),
                          tree   |-> heap ])
    /\ UNCHANGED <<tree_vars, client_vars, frames, browser_vars, type_vars>>

NextService ==
    \/ \E path \in ServicePaths : begin_add_node(path)
    \/ \E address \in ServicePaths : begin_advertise_endpoint(address)
    \/ resolve
    \/ append
    \/ \E path \in RequestPaths : do_GET(path)

SpecService == Init /\ [][NextService]_vars

-----------------------------------------------------------------------------
(* add_child_node on any tree: the root is a node of any path or of none,   *)
(* as a node a client decoded or built is, and nodes are inserted into it   *)
(* step by step                                                             *)

\* the full_path of the root: "/", "/a", or None
RootPaths == {Some(<<"/">>), Some(<<"/", "a">>), None}

\* paths inserted: below "/a", beside it, relative, and the path "/" itself
SubtreePaths ==
    { <<"/", "a", "/", "a">>, <<"/", "a", "b">>, <<"/", "a", "b", "/", "a">>,
      <<"a">>, <<"a", "/", "a">>, <<"/">> }

InitSubtree ==
    /\ heap \in {<<OSCQueryNode(p, None, None, None, None)>> : p \in RootPaths}
    /\ prev = heap
    /\ last = [op |-> "init", child |-> NoNode, path |-> <<>>, ok |-> TRUE]
    /\ nops = 0
    /\ last_json = None
    /\ result = [ok |-> TRUE, h |-> <<>>, node |-> NoNode]
    /\ frames = <<>>
    /\ response = None
    /\ oscjson_services = <<>>
    /\ returned = None
    /\ argument = None
    /\ conversions = <<>>

NextSubtree ==
    \/ \E path \in SubtreePaths : begin_add_node(path)
    \/ resolve
    \/ append

SpecSubtree == InitSubtree /\ [][NextSubtree]_vars

-----------------------------------------------------------------------------
(* Insertion of nodes constructed with contents *)

\* the paths of the inserted nodes and of the children they bring: "/a",
\* "/a/a" and "/a/a/a"
PopulatedPaths ==
    { <<"/", "a">>, <<"/", "a", "/", "a">>, <<"/", "a", "/", "a", "/", "a">> }

\* the contents argument of the constructor: one or two nodes
CarriedPaths ==
    {<<p>> : p \in PopulatedPaths} \cup {<<p, q>> : p, q \in PopulatedPaths}

\* add_node(OSCQueryNode(path, contents=[OSCQueryNode(p) for p in inner])):
\* the children are constructed first, the node that holds them last
add_populated_node(path, inner) ==
    /\ nops < MaxOps
    /\ LET carried == [i \in 1..Len(inner) |->
                          OSCQueryNode(Some(inner[i]), None, None, None, None)]
           node == [OSCQueryNode(Some(path), None, None, None, None)
                        EXCEPT !.contents = Some([i \in 1..Len(inner) |-> Len(heap) + i])]
       IN Called(heap \o carried \o <<node>>, "add_node")

NextPopulated ==
    \/ \E path \in PopulatedPaths : add_node(path)
    \/ \E path \in PopulatedPaths, inner \in CarriedPaths : add_populated_node(path, inner)

SpecPopulated == Init /\ [][NextPopulated]_vars

-----------------------------------------------------------------------------
(* Properties of the tree *)

\* the last call was an insertion of a new node (not of the root itself)
Inserted == last.op \in {"add_node", "advertise_endpoint"}

\* the tree held only its root when the last call started
WasFresh == Len(prev) = 1 /\ prev[Root].contents = None

\* the proper ancestor paths of p other than "/": p cut before each "/" but the first
AncestorPaths(p) == {SubSeq(p, 1, i - 1) : i \in {j \in 2..Len(p) : p[j] = "/"}}

\* the path that follows q on the way to p: the shortest of p and its
\* ancestor paths that is longer than q
NextOnPath(p, q) ==
    LET longer == {a \in AncestorPaths(p) \cup {p} : Len(a) > Len(q)}
    IN CHOOSE a \in longer : \A b \in longer : Len(a) <= Len(b)

\* C1: inserting a node at an absolute path of k >= 1 segments into a tree that
\* holds only the root "/" returns normally; afterwards a node is found at every
\* proper ancestor path and at the node's own path (the node itself), and each
\* synthesized ancestor has no value, type or access and has exactly one child,
\* the next node on the path.  The root's only child is the first node on the path.
C1_InsertSynthesizesAncestors ==
    (Inserted /\ WasFresh /\ last.path \in AbsPaths) =>
        /\ last.ok
        /\ find_subnode(heap, Root, last.path) = last.child
        /\ heap[Root].contents =
               Some(<<find_subnode(heap, Root, NextOnPath(last.path, <<>>))>>)
        /\ \A q \in AncestorPaths(last.path) :
               LET a == find_subnode(heap, Root, q)
               IN /\ a \notin {NoNode, Root, last.child}
                  /\ heap[a].full_path = Some(q)
                  /\ heap[a].value = None
                  /\ heap[a].type_ = None
                  /\ heap[a].access = None
                  /\ heap[a].contents =
                         Some(<<find_subnode(heap, Root, NextOnPath(last.path, q))>>)

\* a node was inserted three segments deep into a tree that held only the root,
\* and two ancestors were synthesized
C1_Witness ==
    /\ Inserted /\ WasFresh /\ last.ok
    /\ Cardinality(AncestorPaths(last.path)) = 2
    /\ Len(heap) = 4
    /\ heap[last.child].access = Some(READWRITE_VALUE)

\* C3: no two distinct nodes of the tree have the same full_path
C3_PathsUnique ==
    \A n, m \in Nodes(heap) :
        (n # m /\ heap[n].full_path # None) => heap[n].full_path # heap[m].full_path

\* C4: a call that inserts a node carrying the root's path (the root itself or
\* another node) leaves the tree as it was
C4_RootPathInsertIsNoop ==
    (last.op # "init" /\ last.path = prev[Root].full_path[1]) => heap = prev

\* the first object of the pre-order sequence s whose full_path is q, NoNode if none
FirstMatch(h, s, q) ==
    LET hits == {i \in 1..Len(s) : h[s[i]].full_path = Some(q)}
    IN IF hits = {} THEN NoNode ELSE s[CHOOSE i \in hits : \A j \in hits : i <= j]

\* the paths looked up: every inserted path, each with a "/" appended, and ""
QueryPaths == InsertPaths \cup {p \o <<"/">> : p \in InsertPaths} \cup {<<>>}

\* C5: find_subnode(path) is the first node in pre-order whose full_path equals
\* path, and is None exactly when no node of the tree has that full_path
C5_LookupExact ==
    \A q \in QueryPaths :
        LET found == find_subnode(heap, Root, q)
        IN /\ found = FirstMatch(heap, iter(heap, Root), q)
           /\ found = NoNode <=> \A n \in Nodes(heap) : heap[n].full_path # Some(q)
           /\ found # NoNode => heap[found].full_path = Some(q)

\* proper prefix
IsProperPrefix(q, p) == Len(q) < Len(p) /\ SubSeq(p, 1, Len(q)) = q

\* the position of object n in the sequence s
PosIn(s, n) == CHOOSE i \in 1..Len(s) : s[i] = n

\* a lookup passes over a node whose path properly extends the requested path
\* and returns a node that comes later in pre-order, and a lookup of "/a/", a
\* proper prefix of a stored path, finds nothing
C5_Witness ==
    /\ \E n, m \in Nodes(heap) :
          /\ PosIn(iter(heap, Root), m) < PosIn(iter(heap, Root), n)
          /\ IsProperPrefix(heap[n].full_path[1], heap[m].full_path[1])
          /\ find_subnode(heap, Root, heap[n].full_path[1]) = n
    /\ \E m \in Nodes(heap) :
          /\ IsProperPrefix(<<"/", "a", "/">>, heap[m].full_path[1])
          /\ find_subnode(heap, Root, <<"/", "a", "/">>) = NoNode


\* a list that may be None, None read as the empty list
ListOf(x) == IF x = None THEN <<>> ELSE x[1]

\* the full_path of each child of node n of h, in order
ChildPaths(h, n) ==
    [i \in 1..Len(ListOf(h[n].contents)) |-> h[ListOf(h[n].contents)[i]].full_path]

\* C2: decoding the JSON of the tree completes without error, and for every
\* path of the tree the decoded tree has a node with the same full_path,
\* access, description, type list, value list and children (an absent list and
\* an empty one taken as the same)
C2_RoundTrip ==
    LET r == make_node_from_json(<<>>, to_json(heap, Root).obj)
    IN /\ r.ok
       /\ \A n \in Nodes(heap) :
              LET a == find_subnode(heap, Root, heap[n].full_path[1])
                  b == find_subnode(r.h, r.node, heap[n].full_path[1])
              IN /\ b # NoNode
                 /\ r.h[b].full_path = heap[a].full_path
                 /\ r.h[b].access = heap[a].access
                 /\ r.h[b].description = heap[a].description
                 /\ ListOf(r.h[b].type_) = ListOf(heap[a].type_)
                 /\ ListOf(r.h[b].value) = ListOf(heap[a].value)
                 /\ ChildPaths(r.h, b) = ChildPaths(heap, a)

\* C6: in the JSON object of any node of the tree no key has the value null,
\* and TYPE is a key only of a node whose type list is not empty
C6_NoNullEmission ==
    \A n \in Nodes(heap) :
        LET d == to_json(heap, n).obj
        IN /\ \A i \in 1..Len(d) : d[i][2] # JNull
           /\ HasKey(d, <<"TYPE">>) <=> (heap[n].type_ # None /\ heap[n].type_[1] # <<>>)


-----------------------------------------------------------------------------
(* Properties of the decoder *)

\* the documents of d and of the nodes nested in its CONTENTS
RECURSIVE DocsIn(_)
DocsIn(d) ==
    {d} \cup
    IF HasKey(d, <<"CONTENTS">>) /\ Lookup(d, <<"CONTENTS">>).j = "obj"
    THEN UNION {DocsIn(Lookup(d, <<"CONTENTS">>).obj[i][2].obj) :
                   i \in 1..Len(Lookup(d, <<"CONTENTS">>).obj)}
    ELSE {}

\* the VALUE of d is an array that holds {} somewhere
HasSentinel(d) ==
    /\ HasKey(d, <<"VALUE">>)
    /\ Lookup(d, <<"VALUE">>).j = "arr"
    /\ \E i \in 1..Len(Lookup(d, <<"VALUE">>).arr) :
           IsEmptyObject(Lookup(d, <<"VALUE">>).arr[i])

\* C7: a document whose VALUE array holds {} at any position (and whose TYPE,
\* if any, is a valid type string) decodes to a node with an empty value list
\* and the full decoded TYPE as its type list
C7_SentinelDiscardsArray ==
    (last_json # None /\ HasSentinel(last_json[1])
       /\ ~HasKey(last_json[1], <<"CONTENTS">>) /\ decode_type(last_json[1]).ok) =>
        /\ result.ok
        /\ result.h[result.node].value = Some(<<>>)
        /\ result.h[result.node].type_ = decode_type(last_json[1]).v

\* C8: a document in which VALUE is present and is no array, at the top level
\* or in a nested CONTENTS entry, is rejected with ValueError
C8_NonArrayValueRejected ==
    (last_json # None /\ \E d \in DocsIn(last_json[1]) :
         HasKey(d, <<"VALUE">>) /\ Lookup(d, <<"VALUE">>).j # "arr") =>
        (~result.ok /\ result.err = "ValueError")


-----------------------------------------------------------------------------
(* Properties of the service *)

\* C9: every GET response is the answer the request gets from the tree as it
\* was before the insertion in progress or as it is after it
C9_ReadsSeeWholeInsertions ==
    response # None => response[1].answer \in {response[1].before, response[1].after}

\* C10: GET /HOST_INFO is answered with the host-info document; any other path
\* is answered 200 with the encoding of the node stored at exactly that path,
\* or 404 with a plain text when there is none
C10_Routing ==
    response # None =>
        LET r == response[1]
            node == find_subnode(r.tree, Root, r.path)
        IN IF r.path = <<"/", "HOST_INFO">>
           THEN r.answer = [status |-> 200, body |-> host_info_to_json]
           ELSE IF node # NoNode
                THEN r.answer = [status |-> 200, body |-> to_json(r.tree, node)]
                ELSE r.answer = [status |-> 404, body |-> JStr(<<"OSC Path not found">>)]

\* a call made step by step ends in the tree the call made at once gives
StepsAgreeWithCall ==
    (frames = <<>> /\ last.op # "init") =>
        heap = Collect(add_child_node(
                   IF last.child > Len(prev)
                   THEN Append(prev, IF last.ok THEN heap[last.child]
                                     ELSE OSCQueryNode(Some(last.path), None, None, None, None))
                   ELSE prev,
                   Root, last.child).h)

-----------------------------------------------------------------------------
(* Further properties of the tree *)

\* the children of node n of h, in order
Children(h, n) == ListOf(h[n].contents)

\* C13: every child of every node of the tree has a full_path that is its
\* parent's full_path extended by exactly one non-empty segment: cut at its
\* last "/" it gives the parent's path ("" read as "/") and a non-empty rest
C13_ChildrenAreDirectDescendants ==
    \A n \in Nodes(heap) :
        \A i \in 1..Len(Children(heap, n)) :
            LET parts == rsplit(heap[Children(heap, n)[i]].full_path[1])
            IN /\ Len(parts) = 2
               /\ parts[2] # <<>>
               /\ Some(parent_path_of(parts)) = heap[n].full_path

\* the path holds no "/"
NoSeparator(p) == \A i \in 1..Len(p) : p[i] # "/"

\* C17: inserting a node whose full_path holds no "/" raises NodeError, and
\* whenever an insertion raises NodeError (for the node or for a synthesized
\* ancestor) the tree is the tree as it was before the call
C17_InvalidPathFailsCleanly ==
    Inserted =>
        /\ NoSeparator(last.path) => ~last.ok
        /\ ~last.ok => heap = prev

\* the relative path "a/a" was inserted into a tree that already held a node
\* beside the root: the call raised while resolving the synthesized ancestor "a"
C17_Witness ==
    /\ Inserted
    /\ ~last.ok
    /\ last.path = <<"a", "/", "a">>
    /\ Len(prev) > 1
    /\ heap = prev

\* C20: after an insertion that returned, the lookup of the inserted node's
\* path gives that node, and a GET of the path is answered with its encoding
C20_InsertedNodeIsServed ==
    (Inserted /\ last.ok) =>
        /\ find_subnode(heap, Root, last.path) = last.child
        /\ do_GET_answer(heap, last.path) =
               [status |-> 200, body |-> to_json(heap, last.child)]

-----------------------------------------------------------------------------
(* Further properties of the codec *)

\* the kinds of the values of a node, in order
KindsOf(values) == [i \in 1..Len(values) |-> values[i].k]

\* a value list that is not empty has its type list's length and, at each
\* index, a value of the type at that index
ValuesMatchKinds(n) ==
    ListOf(n.value) # <<>> => KindsOf(ListOf(n.value)) = ListOf(n.type_)

\* C12: in every node a decoding produced, a value list that is not empty is
\* as long as the type list and holds at each index a value of the type at
\* that index
C12_ValuesMatchKindsByPosition ==
    (last_json # None /\ result.ok) =>
        \A n \in 1..Len(result.h) : ValuesMatchKinds(result.h[n])

\* the same for the nodes advertise_endpoint builds
AdvertisedValuesMatchKinds ==
    \A n \in Nodes(heap) : ValuesMatchKinds(heap[n])

\* the encoding of node n of h obeys the CONTENTS rule: no CONTENTS key when n
\* has no child; otherwise a mapping with, for each child that has a
\* full_path, the child's encoding under its last segment, and no other key
ContentsKeyed(h, n) ==
    LET d == to_json(h, n).obj
        kids == Children(h, n)
        keyed == {i \in 1..Len(kids) : h[kids[i]].full_path # None}
    IN IF kids = <<>>
       THEN ~HasKey(d, <<"CONTENTS">>)
       ELSE /\ HasKey(d, <<"CONTENTS">>)
            /\ Lookup(d, <<"CONTENTS">>).j = "obj"
            /\ LET c == Lookup(d, <<"CONTENTS">>).obj
               IN /\ \A i \in keyed :
                         /\ HasKey(c, last_segment(h[kids[i]].full_path[1]))
                         /\ Lookup(c, last_segment(h[kids[i]].full_path[1])) = to_json(h, kids[i])
                  /\ \A k \in 1..Len(c) :
                         \E i \in keyed : c[k][1] = last_segment(h[kids[i]].full_path[1])

\* C14: the encoding of every decoded node (its children list is a list, empty
\* for a leaf) obeys the CONTENTS rule
C14_ContentsKeying ==
    (last_json # None /\ result.ok) =>
        \A n \in 1..Len(result.h) : ContentsKeyed(result.h, n)

-----------------------------------------------------------------------------
(* Properties of the type conversions *)

\* the canonical tag of a tag
CanonicalTag(tag) ==
    CASE tag = "i" -> "i"
      [] tag \in {"f", "h", "d", "t"} -> "f"
      [] tag \in {"T", "F"} -> "T"
      [] tag = "s" -> "s"

\* every element of sequence s is in set S
Over(s, S) == \A i \in 1..Len(s) : s[i] \in S

\* call k converted a type string over the eight tags, and call k + 1
\* converted its result back
IsRoundTrip(k) ==
    /\ k + 1 <= Len(conversions)
    /\ conversions[k].fn = "OSC_Type_String_to_Python_Type"
    /\ Over(conversions[k].arg, {"i", "f", "h", "d", "t", "T", "F", "s"})

\* C15: converting a type string over the eight tags to types and back gives a
\* string of the same length that holds at each index the canonical tag of the
\* tag at that index, hence the string itself when it is over i, f, T, s; and
\* a second round trip gives what the first gave
C15_TypeRoundTrip ==
    \A k \in 1..Len(conversions) :
        IsRoundTrip(k) =>
            LET s == conversions[k].arg
                back == conversions[k + 1].ret
            IN /\ conversions[k].ret.ok
               /\ back.ok
               /\ Len(back.v) = Len(s)
               /\ \A i \in 1..Len(s) : back.v[i] = CanonicalTag(s[i])
               /\ Over(s, {"i", "f", "T", "s"}) => back.v = s
               /\ k + 3 <= Len(conversions) =>
                      /\ conversions[k + 3].ret.ok
                      /\ conversions[k + 3].ret.v = back.v

\* the string "hF" went through two round trips, the first one gave "fT"
C15_Witness ==
    /\ Len(conversions) = 4
    /\ IsRoundTrip(1)
    /\ conversions[1].arg = <<"h", "F">>
    /\ conversions[2].ret.v = <<"f", "T">>
    /\ conversions[4].ret.v = <<"f", "T">>

\* C16: a conversion of a type string that holds a character outside the eight
\* tags, or of a list that holds a type other than int, float, bool, str,
\* raises ValueError and returns nothing
C16_TypeRejection ==
    \A k \in 1..Len(conversions) :
        LET c == conversions[k]
            known == IF c.fn = "OSC_Type_String_to_Python_Type"
                     THEN {"i", "f", "h", "d", "t", "T", "F", "s"}
                     ELSE {"int", "float", "bool", "str"}
        IN ~Over(c.arg, known) =>
               /\ ~c.ret.ok
               /\ DOMAIN c.ret = {"ok", "err"}
               /\ c.ret.err = "ValueError"

\* the type string "ix", whose unknown character follows a known one, was
\* converted and the call raised
C16_Witness ==
    /\ Len(conversions) = 1
    /\ conversions[1].fn = "OSC_Type_String_to_Python_Type"
    /\ conversions[1].arg = <<"i", "x">>
    /\ ~conversions[1].ret.ok

-----------------------------------------------------------------------------
(* Properties of the client and of the browser *)

\* the last call was a call of op on a client
Requested(op) == returned # None /\ returned[1].op = op

\* the request was answered 200
Answered(r) == r.reply.net = "response" /\ r.reply.status_code = 200

\* C11: a host-info document with NAME and without EXTENSIONS, OSC_IP,
\* OSC_PORT and OSC_TRANSPORT decodes to a host info with an empty mapping as
\* extensions, "UDP" as osc_transport, the service's IP address text as osc_ip
\* and the service's port as osc_port; a document without NAME raises KeyError
C11_HostInfoDefaults ==
    (Requested("get_host_info") /\ Answered(returned[1])) =>
        LET r == returned[1]
            json == r.reply.json.obj
        IN /\ ~HasKey(json, <<"NAME">>) => (~r.ret.ok /\ r.ret.err = "KeyError")
           /\ (/\ HasKey(json, <<"NAME">>)
               /\ \A key \in {<<"EXTENSIONS">>, <<"OSC_IP">>, <<"OSC_PORT">>, <<"OSC_TRANSPORT">>} :
                      ~HasKey(json, key)) =>
                  /\ r.ret.ok
                  /\ r.ret.v # None
                  /\ r.ret.v[1].name = Lookup(json, <<"NAME">>)
                  /\ r.ret.v[1].extensions = JObj(<<>>)
                  /\ r.ret.v[1].osc_transport = JStr(<<"UDP">>)
                  /\ r.ret.v[1].osc_ip = JStr(get_ip_str(r.service_info))
                  /\ r.ret.v[1].osc_port = JNum(r.service_info.port)

\* the call gave None
GaveNone(outcome) == outcome.ok /\ outcome.v = None

\* C18: in query_node and get_host_info, a connection failure or a 404 gives
\* None from _handle_request and raises nothing, a 200 gives the response,
\* any other status raises HTTPError to the caller; the call returns None
\* exactly when _handle_request returned None
C18_ResponseClassification ==
    (Requested("query_node") \/ Requested("get_host_info")) =>
        LET r == returned[1]
            status == r.reply.status_code
        IN /\ (r.reply.net = "ConnectionError" \/ (r.reply.net = "response" /\ status = 404)) =>
                  GaveNone(r.handled)
           /\ (r.reply.net = "response" /\ status = 200) =>
                  (r.handled.ok /\ r.handled.v = Some(r.reply))
           /\ (r.reply.net = "response" /\ status \notin {200, 404}) =>
                  /\ ~r.handled.ok /\ r.handled.err = "HTTPError"
                  /\ ~r.ret.ok /\ r.ret.err = "HTTPError"
           /\ GaveNone(r.ret) <=> GaveNone(r.handled)

\* get_host_info met a 500 and raised HTTPError
C18_Witness ==
    /\ Requested("get_host_info")
    /\ returned[1].reply = Response(500, JNull)
    /\ returned[1].ret = Raise("HTTPError")
    /\ Len(oscjson_services) = MaxServices

\* the services whose host-info request gets an answer or an error status: all
\* but those that refuse the connection or answer 404
Reachable(services, peers) ==
    {i \in 1..Len(services) :
        ~GaveNone(handle_request(host_reply(peers[i], services[i])))}

\* C19: find_service_by_name and find_nodes_by_endpoint_address give what they
\* give for the discovered services without those whose host-info request got
\* no answer: such a service is skipped and raises nothing
C19_UnreachablePeersSkipped ==
    /\ Requested("find_service_by_name") =>
           LET r == returned[1]
               keep == Reachable(oscjson_services, r.peers)
           IN r.ret = find_service_by_name(Pick(oscjson_services, keep), r.name,
                                           Pick(r.peers, keep))
    /\ Requested("find_nodes_by_endpoint_address") =>
           LET r == returned[1]
               keep == Reachable(oscjson_services, r.peers)
           IN r.ret = find_nodes_by_endpoint_address(Pick(oscjson_services, keep), r.address,
                                                     Pick(r.peers, keep))

\* the second conjunct of C19 alone: find_nodes_by_endpoint_address skips the
\* services without an answer
EndpointSearchSkipsUnreachable ==
    Requested("find_nodes_by_endpoint_address") =>
        LET r == returned[1]
            keep == Reachable(oscjson_services, r.peers)
        IN r.ret = find_nodes_by_endpoint_address(Pick(oscjson_services, keep), r.address,
                                                  Pick(r.peers, keep))

-----------------------------------------------------------------------------
(* Properties of the insertion cascade *)

\* the number of "/" of a path: its segments, when it is absolute
Separators(p) == Cardinality({i \in 1..Len(p) : p[i] = "/"})

\* the path of the node activation i of the call in progress inserts
FramePath(i) == heap[frames[i].child].full_path[1]

\* C21: while add_child_node runs, the recursive insertions of synthesized
\* ancestors are at most one per segment of the inserted path, and no two of
\* them insert the same path: the cascade ends, by a return or by NodeError
C21_InsertionTerminates ==
    /\ Len(frames) <= Separators(last.path) + 1
    /\ \A i, j \in 2..Len(frames) : i # j => FramePath(i) # FramePath(j)

-----------------------------------------------------------------------------
(* Properties of a sequence of insertions *)

\* s is an initial part of t
IsPrefix(s, t) == Len(s) <= Len(t) /\ SubSeq(t, 1, Len(s)) = s

\* every node of tree h is a node of tree g with the same full_path, value,
\* type, access and description and with the same children in the same
\* order, followed by those g has more; and the lookup of its path gives in g
\* the node it gives in h
GrowsTo(h, g) ==
    \A n \in Nodes(h) :
        /\ n \in Nodes(g)
        /\ g[n].full_path = h[n].full_path
        /\ g[n].value = h[n].value
        /\ g[n].type_ = h[n].type_
        /\ g[n].access = h[n].access
        /\ g[n].description = h[n].description
        /\ IsPrefix(Children(h, n), Children(g, n))
        /\ find_subnode(g, Root, h[n].full_path[1]) = find_subnode(h, Root, h[n].full_path[1])

\* C22: every call leaves every node of the tree in the tree, with its fields
\* unchanged and its children list extended at the end at most, and leaves
\* the lookup of every path that was found giving the same node
C22_TreeOnlyGrows == [][GrowsTo(heap, heap')]_vars

=============================================================================
